---- MODULE Spec2Model ----
(***************************************************************************)
(* Device Control Core of the Michelson interferometer software:           *)
(* michelson_interferometer/devices.py (Motor, Detector), driven through   *)
(* the driver interface of devices_mock.py and called as gui.py calls it.  *)
(*                                                                         *)
(* Threads are modelled by program counters.  One step of a thread is the  *)
(* code between two accesses to state shared with another thread (the      *)
(* command queue, _current_speed, the sample log, the device link).  A     *)
(* driver call is two steps, its start and its return or raise, so that    *)
(* calls of different threads on one link can overlap.  Speeds are in      *)
(* tenths of a millimeter per second, so that SPEED_EPSILON is 1.          *)
(***************************************************************************)
EXTENDS Naturals, Integers, Sequences, FiniteSets

VARIABLES
    pc,             \* caller thread -> position in the Motor code
    op,             \* caller thread -> the Motor operation it is inside
    todo,           \* caller thread -> commands its operation has yet to put
    hasQueue,       \* Motor._queue exists (devices.py:93)
    queue,          \* Motor._queue
    current_speed,  \* Motor._current_speed
    data,           \* Motor.data, the position log (values only)
    wpc,            \* the motor worker's position in _run_thread
    tick,           \* should_get_position of the worker's current iteration
    func,           \* the worker's local (func, arg)
    attempt,        \* iteration of the retry loop of _set_speed, 1..3
    devPos,         \* driver: KinesisMotor._position
    devSpeed,       \* driver: KinesisMotor._speed
    moving,         \* driver: the stage is in motion
    ncalls,         \* number of Motor operations called so far
    nput,           \* number of commands put on the queue so far
    exec,           \* ids of the commands whose driver call was issued, in order
    reqSpeed,       \* argument of the last setup_velocity call issued
    writes,         \* setup_velocity calls issued by the current _set_speed
    sent,           \* caller thread -> commands put by its current operation
    saw,            \* caller thread -> what its set_position found at line 150
    prev,           \* speed of the latest call if a set_position, else 0
    lastPutSpeed,   \* argument of the SetSpeed command put last
    wfs,            \* caller thread -> outcomes of its wait_for_stop calls
    why,            \* the exception that ended the latest attempt of _set_speed
    mpaths,         \* number of paths glob(MOTOR_DEVICE_GLOB) returned
    device,         \* Motor._device exists: the link to the stage is open
    cbArg,          \* argument of the motor on_update call in progress
    res,            \* caller thread -> what its read of Motor.position returns
    dpc,            \* thread -> position in the Detector code
    dop,            \* thread -> the Detector accessor it is inside
    dres,           \* thread -> value its accessor returns
    lock,           \* Detector._lock: "free" or the thread that holds it
    dwpc,           \* the detector worker's position in _run_thread
    ddata,          \* Detector.data, the intensity log (values only)
    gain,           \* driver: SCPIDevice._gain
    dpaths,         \* number of paths glob(DETECTOR_DEVICE_GLOB) returned
    ddevice,        \* Detector._device exists: the link to the detector is open
    dcbArg,         \* argument of the detector on_update call in progress
    lastWrite,      \* the value of the last gain write that reached the driver
    dfailed         \* an intensity read of the detector worker has failed

motorVars == <<pc, op, todo, hasQueue, queue, current_speed, data, wpc, tick,
               func, attempt, devPos, devSpeed, moving, ncalls, nput, exec,
               reqSpeed, writes, sent, saw, prev, lastPutSpeed, wfs,
               why, mpaths, device, cbArg, res>>

detVars == <<dpc, dop, dres, lock, dwpc, ddata, gain, dpaths, ddevice, dcbArg, lastWrite, dfailed>>

vars == <<motorVars, detVars>>

----------------------------------------------------------------------------
(* Bounds of the model *)

MaxCalls == 2       \* Motor operations called after construction
MaxLog == 2         \* samples a log holds before further polls fail
SlowSpeed == 50     \* a speed other than the maximum, 5.0 mm/s
MaxGain == 2        \* gains written have one, two and three digits made of it

(* Program constants *)

MAX_INTENSITY == 65535      \* 2**16 - 1
MOTOR_MAX_SPEED == 1000     \* 100.0 mm/s
SPEED_EPSILON == 1          \* 0.1 mm/s
SetSpeedAttempts == 3       \* range(3) in _set_speed

Callers == {"main", "motion"}
Positions == {10}
Speeds == {SlowSpeed, MOTOR_MAX_SPEED}
Gains == {0 - (10 * MaxGain + 3), MaxGain, 100 * MaxGain + 1}
Readings == {0, MAX_INTENSITY}

NoOp == [name |-> "none", pos |-> 0, speed |-> 0]
NoSaw == [speed |-> 0, prev |-> 0, settled |-> FALSE]
NoAccess == [name |-> "none", value |-> 0]
NoValue == 0 - 1
PathCounts == {0, 1}

Abs(x) == IF x < 0 THEN 0 - x ELSE x

----------------------------------------------------------------------------
(* Commands: the (function, argument) pairs of the queue.  by, want and id *)
(* are bookkeeping: the thread that put the command, the speed its         *)
(* set_position call asked for, and the command's number in put order.     *)

Cmd(f, arg, by, want) == [f |-> f, arg |-> arg, by |-> by, want |-> want, id |-> 0]

GetPosition == [f |-> "get_position", arg |-> 0, by |-> "worker", want |-> 0, id |-> 0]

(* Home before Enable and SetSpeed. *)
HomeCommandsHomeFirst(c) ==
    << Cmd("home", 0, c, 0),
       Cmd("enable", 0, c, 0),
       Cmd("set_speed", MOTOR_MAX_SPEED, c, 0) >>

HomeCommands(c) ==
    << Cmd("enable", 0, c, 0),
       Cmd("set_speed", MOTOR_MAX_SPEED, c, 0),
       Cmd("home", 0, c, 0) >>

StopCommands(c) ==
    << Cmd("stop", 0, c, 0),
       Cmd("set_speed", MOTOR_MAX_SPEED, c, 0) >>

(* Puts a SetSpeed whatever the current speed. *)
SetPositionCommandsAlways(c, position, speed, cur) ==
    << Cmd("set_speed", speed, c, speed), Cmd("set_position", position, c, speed) >>

SetPositionCommands(c, position, speed, cur) ==
    IF speed # cur
    THEN << Cmd("set_speed", speed, c, speed), Cmd("set_position", position, c, speed) >>
    ELSE << Cmd("set_position", position, c, speed) >>

----------------------------------------------------------------------------
Init ==
    /\ pc = [c \in Callers |-> IF c = "main" THEN "ctor" ELSE "idle"]
    /\ op = [c \in Callers |-> IF c = "main" THEN [NoOp EXCEPT !.name = "__init__"] ELSE NoOp]
    /\ todo = [c \in Callers |-> << >>]
    /\ hasQueue = FALSE
    /\ queue = << >>
    /\ current_speed = 0
    /\ data = << >>
    /\ wpc = "off"
    /\ tick = TRUE
    /\ func = GetPosition
    /\ attempt = 0
    /\ devPos = 0
    /\ devSpeed = 0
    /\ moving = FALSE
    /\ ncalls = 0
    /\ nput = 0
    /\ exec = << >>
    /\ reqSpeed = 0
    /\ writes = 0
    /\ sent = [c \in Callers |-> << >>]
    /\ saw = [c \in Callers |-> NoSaw]
    /\ prev = 0
    /\ lastPutSpeed = 0
    /\ wfs = [c \in Callers |-> << >>]
    /\ why = "none"
    /\ mpaths = 0
    /\ device = FALSE
    /\ cbArg = NoValue
    /\ res = [c \in Callers |-> NoValue]
    /\ dpc = [c \in Callers |-> IF c = "main" THEN "ctor" ELSE "idle"]
    /\ dop = [c \in Callers |-> IF c = "main" THEN [NoAccess EXCEPT !.name = "__init__"] ELSE NoAccess]
    /\ dres = [c \in Callers |-> 0]
    /\ lock = "free"
    /\ dwpc = "off"
    /\ ddata = << >>
    /\ gain = 0
    /\ dpaths = 0
    /\ ddevice = FALSE
    /\ dcbArg = NoValue
    /\ lastWrite = 0
    /\ dfailed = FALSE

----------------------------------------------------------------------------
callerVars == <<pc, op, todo, sent, saw, wfs>>
ghostVars == <<prev, lastPutSpeed>>
workerVars == <<wpc, tick, func, attempt, writes, why>>
deviceVars == <<devPos, devSpeed, moving>>
linkVars == <<mpaths, device>>
readVars == <<cbArg, res>>
dlinkVars == <<dpaths, ddevice>>
dreadVars == <<dcbArg, lastWrite, dfailed>>

(* The motor object exists for other threads once __init__ has returned. *)
Constructed == op["main"].name # "__init__"

(* Goes on whatever the discovery found. *)
AfterGlobUnchecked(n) == "ctor_thread"

(* Lines 76-79 and 201-204: glob(...)[0] raises IndexError when no path    *)
(* matches, and the constructor raises IOError; else it goes on.           *)
AfterGlob(n) == IF n = 0 THEN "ctor_failed" ELSE "ctor_thread"

(* Motor.__init__, lines 76-89: glob, open the link, initialise the fields. *)
MotorInitDevice ==
    /\ pc["main"] = "ctor"
    /\ \E n \in PathCounts :
          /\ mpaths' = n
          /\ pc' = [pc EXCEPT !["main"] = AfterGlob(n)]
          /\ device' = (AfterGlob(n) = "ctor_thread")
    /\ UNCHANGED <<op, todo, sent, saw, wfs, hasQueue, queue, current_speed, data,
                   workerVars, deviceVars, ncalls, nput, exec, reqSpeed, ghostVars, readVars, detVars>>

(* Motor.__init__, line 92: start_thread(self._run_thread). *)
MotorInitThread ==
    /\ pc["main"] = "ctor_thread"
    /\ pc' = [pc EXCEPT !["main"] = "ctor_queue"]
    /\ wpc' = "sleep"
    /\ UNCHANGED <<op, todo, sent, saw, wfs, hasQueue, queue, current_speed, data,
                   tick, func, attempt, writes, why, deviceVars, ncalls, nput, exec, reqSpeed, ghostVars, linkVars, readVars, detVars>>

(* Motor.__init__, lines 93-99: create the queue, then call self.home(). *)
MotorInitQueue ==
    /\ pc["main"] = "ctor_queue"
    /\ hasQueue' = TRUE
    /\ pc' = [pc EXCEPT !["main"] = "ctor_home"]
    /\ todo' = [todo EXCEPT !["main"] = HomeCommands("main")]
    /\ UNCHANGED <<op, sent, saw, wfs, queue, current_speed, data,
                   workerVars, deviceVars, ncalls, nput, exec, reqSpeed, ghostVars, linkVars, readVars, detVars>>

(* Puts the command at the head of the queue. *)
QueuePutFront(q, cmd) == << cmd >> \o q

(* Queue.put of the next command of the operation thread c is inside. *)
QueuePut(q, cmd) == Append(q, cmd)

Put(c) ==
    /\ pc[c] \in {"put", "ctor_home"}
    /\ todo[c] # << >>
    /\ LET cmd == [Head(todo[c]) EXCEPT !.id = nput + 1] IN
          /\ queue' = QueuePut(queue, cmd)
          /\ sent' = [sent EXCEPT ![c] = Append(@, cmd)]
    /\ nput' = nput + 1
    /\ todo' = [todo EXCEPT ![c] = Tail(@)]
    /\ pc' = [pc EXCEPT ![c] = IF Len(todo[c]) = 1 THEN "done" ELSE @]
    /\ lastPutSpeed' = IF Head(todo[c]).f = "set_speed" THEN Head(todo[c]).arg ELSE lastPutSpeed
    /\ UNCHANGED <<op, saw, wfs, hasQueue, current_speed, data,
                   workerVars, deviceVars, ncalls, exec, reqSpeed, prev, linkVars, readVars, detVars>>

(* The operation of thread c returns (or raises) to its caller. *)
Return(c) ==
    /\ pc[c] \in {"done", "raised"}
    /\ pc' = [pc EXCEPT ![c] = "idle"]
    /\ op' = [op EXCEPT ![c] = NoOp]
    /\ sent' = [sent EXCEPT ![c] = << >>]
    /\ saw' = [saw EXCEPT ![c] = NoSaw]
    /\ wfs' = [wfs EXCEPT ![c] = << >>]
    /\ res' = [res EXCEPT ![c] = NoValue]
    /\ UNCHANGED <<todo, hasQueue, queue, current_speed, data,
                   workerVars, deviceVars, ncalls, nput, exec, reqSpeed, ghostVars, linkVars, cbArg, detVars>>

CanCall(c) == Constructed /\ pc[c] = "idle" /\ ncalls < MaxCalls

(* No SetSpeed command waits in the queue q. *)
NoSetSpeedIn(q) == \A i \in 1..Len(q) : q[i].f # "set_speed"

(* Motor.set_position, line 150: compare speed with self._current_speed. *)
SetPosition(c) ==
    /\ CanCall(c)
    /\ \E position \in Positions, speed \in Speeds :
          /\ op' = [op EXCEPT ![c] = [name |-> "set_position", pos |-> position, speed |-> speed]]
          /\ todo' = [todo EXCEPT ![c] = SetPositionCommands(c, position, speed, current_speed)]
          /\ saw' = [saw EXCEPT ![c] = [speed |-> current_speed, prev |-> prev,
                                        settled |-> NoSetSpeedIn(queue) /\ lastPutSpeed = speed]]
          /\ prev' = speed
    /\ pc' = [pc EXCEPT ![c] = "put"]
    /\ ncalls' = ncalls + 1
    /\ UNCHANGED <<sent, wfs, hasQueue, queue, current_speed, data,
                   workerVars, deviceVars, nput, exec, reqSpeed, lastPutSpeed, linkVars, readVars, detVars>>

(* Motor.home, lines 111-115. *)
Home(c) ==
    /\ CanCall(c)
    /\ op' = [op EXCEPT ![c] = [name |-> "home", pos |-> 0, speed |-> 0]]
    /\ todo' = [todo EXCEPT ![c] = HomeCommands(c)]
    /\ pc' = [pc EXCEPT ![c] = "put"]
    /\ ncalls' = ncalls + 1
    /\ prev' = 0
    /\ UNCHANGED <<sent, saw, wfs, hasQueue, queue, current_speed, data,
                   workerVars, deviceVars, nput, exec, reqSpeed, lastPutSpeed, linkVars, readVars, detVars>>

(* Motor.stop, lines 123-126. *)
Stop(c) ==
    /\ CanCall(c)
    /\ op' = [op EXCEPT ![c] = [name |-> "stop", pos |-> 0, speed |-> 0]]
    /\ todo' = [todo EXCEPT ![c] = StopCommands(c)]
    /\ pc' = [pc EXCEPT ![c] = "put"]
    /\ ncalls' = ncalls + 1
    /\ prev' = 0
    /\ UNCHANGED <<sent, saw, wfs, hasQueue, queue, current_speed, data,
                   workerVars, deviceVars, nput, exec, reqSpeed, lastPutSpeed, linkVars, readVars, detVars>>

(* Retries after every ThorlabsError. *)
WaitAfterAlwaysRetry(outcomes) ==
    IF outcomes[Len(outcomes)] = "ok"
    THEN "done"
    ELSE IF outcomes[Len(outcomes)] = "ThorlabsError"
    THEN "wait_retry"
    ELSE "raised"

(* Motor.wait, lines 103-109.  The outcome of a wait_for_stop call is "ok"  *)
(* (the stage reports that it is not moving), "ThorlabsError" or another    *)
(* "Error".  WaitAfter gives where wait() goes after a call, given the      *)
(* outcomes of its calls so far.                                            *)
WaitAfter(outcomes) ==
    IF outcomes[Len(outcomes)] = "ok"
    THEN "done"
    ELSE IF outcomes[Len(outcomes)] = "ThorlabsError" /\ Len(outcomes) = 1
    THEN "wait_retry"
    ELSE "raised"

Wait(c) ==
    /\ CanCall(c)
    /\ op' = [op EXCEPT ![c] = [name |-> "wait", pos |-> 0, speed |-> 0]]
    /\ pc' = [pc EXCEPT ![c] = "wait_for_stop"]
    /\ ncalls' = ncalls + 1
    /\ UNCHANGED <<todo, sent, saw, wfs, hasQueue, queue, current_speed, data,
                   workerVars, deviceVars, nput, exec, reqSpeed, ghostVars, linkVars, readVars, detVars>>

WaitForStopEnds(c) ==
    /\ pc[c] = "wait_for_stop"
    /\ \E outcome \in {"ok", "ThorlabsError", "Error"} :
          /\ outcome = "ok" => ~moving
          /\ wfs' = [wfs EXCEPT ![c] = Append(@, outcome)]
          /\ pc' = [pc EXCEPT ![c] = WaitAfter(Append(wfs[c], outcome))]
    /\ UNCHANGED <<op, todo, sent, saw, hasQueue, queue, current_speed, data,
                   workerVars, deviceVars, ncalls, nput, exec, reqSpeed, ghostVars, linkVars, readVars, detVars>>

WaitRetry(c) ==
    /\ pc[c] = "wait_retry"
    /\ pc' = [pc EXCEPT ![c] = "wait_for_stop"]
    /\ UNCHANGED <<op, todo, sent, saw, wfs, hasQueue, queue, current_speed, data,
                   workerVars, deviceVars, ncalls, nput, exec, reqSpeed, ghostVars, linkVars, readVars, detVars>>

(* Returns normally when the log is still empty at the second read. *)
PositionAfterDefaulting(log, second) ==
    IF log # << >> THEN "done" ELSE IF second THEN "done" ELSE "position_retry"

(* Motor.position, lines 134-138: where the read goes after self.data[-1], *)
(* at the first read and at the second, given the log it found.            *)
PositionAfter(log, second) ==
    IF log # << >> THEN "done" ELSE IF second THEN "raised" ELSE "position_retry"

(* Motor.position is read. *)
Position(c) ==
    /\ Constructed
    /\ pc[c] = "idle"
    /\ op' = [op EXCEPT ![c] = [name |-> "position", pos |-> 0, speed |-> 0]]
    /\ pc' = [pc EXCEPT ![c] = "position"]
    /\ UNCHANGED <<todo, sent, saw, wfs, hasQueue, queue, current_speed, data,
                   workerVars, deviceVars, ncalls, nput, exec, reqSpeed, ghostVars, linkVars, readVars, detVars>>

(* Lines 135 and 138: self.data[-1][1], after the sleep of line 137 when   *)
(* it is the second read.                                                  *)
PositionRead(c) ==
    /\ pc[c] \in {"position", "position_retry"}
    /\ pc' = [pc EXCEPT ![c] = PositionAfter(data, pc[c] = "position_retry")]
    /\ res' = [res EXCEPT ![c] = IF data # << >> THEN data[Len(data)] ELSE @]
    /\ UNCHANGED <<op, todo, sent, saw, wfs, hasQueue, queue, current_speed, data,
                   workerVars, deviceVars, ncalls, nput, exec, reqSpeed, ghostVars, linkVars, cbArg, detVars>>

----------------------------------------------------------------------------
(* The sample logs: list.append and list.clear *)

(* Puts the sample at the head of the log. *)
LogAppendFront(log, v) == << v >> \o log

(* Lines 143 and 259: self.data.append(...). *)
LogAppend(log, v) == Append(log, v)

(* Keeps the newest sample. *)
LogClearAllButLast(log) == IF log = << >> THEN log ELSE << log[Len(log)] >>

(* gui.py, lines 344-345: data.clear(). *)
LogClear(log) == << >>

----------------------------------------------------------------------------
(* Motor._run_thread *)

(* Takes the command put last. *)
QueueGetNewest(q) == [item |-> q[Len(q)], rest |-> SubSeq(q, 1, Len(q) - 1)]

(* The command a command tick takes from the queue: Queue.get_nowait. *)
QueueGet(q) == [item |-> Head(q), rest |-> Tail(q)]

(* _set_speed without the assignment of line 159. *)
CallKeepingSpeed(f) ==
    /\ wpc' = IF f.f = "set_position" THEN "move_to"
              ELSE IF f.f = "set_speed" THEN "setup_velocity" ELSE f.f
    /\ exec' = IF f.f = "get_position" THEN exec ELSE Append(exec, f.id)
    /\ IF f.f = "set_speed"
       THEN /\ reqSpeed' = f.arg
            /\ attempt' = 1
            /\ writes' = 1
            /\ UNCHANGED current_speed
       ELSE UNCHANGED <<current_speed, reqSpeed, attempt, writes>>

(* The driver call a command function makes (first). *)
DriverCallOf(f) ==
    CASE f = "get_position" -> "get_position"
      [] f = "enable" -> "enable"
      [] f = "home" -> "home"
      [] f = "stop" -> "stop"
      [] f = "set_position" -> "move_to"
      [] f = "set_speed" -> "setup_velocity"

(* Line 191: func(arg) starts and issues its first driver call.            *)
(* _set_speed assigns _current_speed before its first setup_velocity.      *)
Call(f) ==
    /\ wpc' = DriverCallOf(f.f)
    /\ exec' = IF f.f = "get_position" THEN exec ELSE Append(exec, f.id)
    /\ IF f.f = "set_speed"
       THEN /\ current_speed' = f.arg
            /\ reqSpeed' = f.arg
            /\ attempt' = 1
            /\ writes' = 1
       ELSE UNCHANGED <<current_speed, reqSpeed, attempt, writes>>

(* Lines 181-191: sleep, choose (func, arg), start func(arg).  A command   *)
(* tick that finds the queue empty keeps the (func, arg) of the tick       *)
(* before; one that finds no _queue attribute raises AttributeError, which *)
(* `except Empty` does not catch, and the thread ends.                     *)
RunThreadTick ==
    /\ wpc = "sleep"
    /\ IF tick
       THEN /\ func' = GetPosition
            /\ Call(GetPosition)
            /\ UNCHANGED queue
       ELSE IF ~hasQueue
       THEN /\ wpc' = "dead"
            /\ UNCHANGED <<func, queue, exec, current_speed, reqSpeed, attempt, writes>>
       ELSE IF queue # << >>
       THEN /\ func' = QueueGet(queue).item
            /\ queue' = QueueGet(queue).rest
            /\ Call(QueueGet(queue).item)
       ELSE /\ Call(func)
            /\ UNCHANGED <<func, queue>>
    /\ why' = "none"
    /\ UNCHANGED <<callerVars, hasQueue, data, tick, deviceVars, ncalls, nput, ghostVars, linkVars, readVars, detVars>>

(* The loop ends where an iteration ends. *)
NextIterationEndsLoop ==
    /\ wpc' = "dead"
    /\ tick' = ~tick

(* The tick after is of the same kind. *)
NextIterationSameTick ==
    /\ wpc' = "sleep"
    /\ tick' = tick

(* Every tick after is a command tick. *)
NextIterationCommandTick ==
    /\ wpc' = "sleep"
    /\ tick' = FALSE

(* The end of an iteration of the for loop, also through `except:`. *)
NextIteration ==
    /\ wpc' = "sleep"
    /\ tick' = ~tick

(* Calls on_update also when the driver's read has failed. *)
GetPositionEndsNotifyingOnFailure ==
    /\ wpc = "get_position"
    /\ \/ /\ Len(data) < MaxLog
          /\ data' = LogAppend(data, devPos)
       \/ UNCHANGED data
    /\ cbArg' = devPos
    /\ wpc' = "on_update"
    /\ UNCHANGED <<callerVars, hasQueue, queue, current_speed, tick, func, attempt, writes, why,
                   deviceVars, ncalls, nput, exec, reqSpeed, ghostVars, linkVars, res, detVars>>

(* _get_position, lines 142-143: the driver returns the position and the   *)
(* sample is appended, or the driver raises.                               *)
GetPositionEnds ==
    /\ wpc = "get_position"
    /\ \/ /\ Len(data) < MaxLog
          /\ data' = LogAppend(data, devPos)
          /\ cbArg' = devPos
          /\ wpc' = "on_update"
          /\ UNCHANGED tick
       \/ /\ NextIteration
          /\ UNCHANGED <<data, cbArg>>
    /\ UNCHANGED <<callerVars, hasQueue, queue, current_speed, func, attempt, writes, why,
                   deviceVars, ncalls, nput, exec, reqSpeed, ghostVars, linkVars, res, detVars>>

(* _get_position, line 144: on_update(position) returns or raises. *)
OnUpdateEnds ==
    /\ wpc = "on_update"
    /\ NextIteration
    /\ cbArg' = NoValue
    /\ UNCHANGED <<callerVars, hasQueue, queue, current_speed, data, func, attempt, writes, why,
                   deviceVars, ncalls, nput, exec, reqSpeed, ghostVars, linkVars, res, detVars>>

(* _enable, _home, _stop, _set_position: the driver call returns, with its *)
(* effect on the device, or raises.                                        *)
CommandEnds ==
    /\ wpc \in {"enable", "home", "stop", "move_to"}
    /\ \/ /\ wpc = "enable"
          /\ UNCHANGED deviceVars
       \/ /\ wpc = "home"
          /\ devPos' = 0
          /\ moving' = TRUE
          /\ UNCHANGED devSpeed
       \/ /\ wpc = "stop"
          /\ moving' = FALSE
          /\ UNCHANGED <<devPos, devSpeed>>
       \/ /\ wpc = "move_to"
          /\ devPos' = func.arg
          /\ moving' = TRUE
          /\ UNCHANGED devSpeed
       \/ UNCHANGED deviceVars
    /\ NextIteration
    /\ UNCHANGED <<callerVars, hasQueue, queue, current_speed, data, func, attempt, writes, why,
                   ncalls, nput, exec, reqSpeed, ghostVars, linkVars, readVars, detVars>>

(* The stage comes to rest. *)
MotionEnds ==
    /\ moving
    /\ moving' = FALSE
    /\ UNCHANGED <<callerVars, hasQueue, queue, current_speed, data, workerVars,
                   devPos, devSpeed, ncalls, nput, exec, reqSpeed, ghostVars, linkVars, readVars, detVars>>

(* _set_speed, lines 160-173 *)

(* Accepts the exact speed only. *)
SpeedVerifiedExact(readback, speed) == readback = speed

(* Line 168: the readback is accepted. *)
SpeedVerified(readback, speed) == ~(Abs(readback - speed) > SPEED_EPSILON)

(* One iteration too many. *)
HasNextAttemptOffByOne(n) == n <= SetSpeedAttempts

(* Line 160: the for loop has another iteration after iteration n. *)
HasNextAttempt(n) == n < SetSpeedAttempts

(* Lines 170-171 and 160-162: the attempt failed with ThorlabsError or     *)
(* ValueError; sleep, then write again if the loop has an iteration left.  *)
SetSpeedAttemptFailed ==
    IF HasNextAttempt(attempt)
    THEN /\ attempt' = attempt + 1
         /\ writes' = writes + 1
         /\ wpc' = "setup_velocity"
         /\ UNCHANGED tick
    ELSE /\ NextIteration
         /\ UNCHANGED <<attempt, writes>>

(* Line 162: setup_velocity returns, having configured the requested speed *)
(* exactly, or to within the device's resolution, or not at all; or it     *)
(* raises ThorlabsError; or it raises another error, which leaves          *)
(* _set_speed.                                                             *)
SetupVelocityEnds ==
    /\ wpc = "setup_velocity"
    /\ \/ /\ \E v \in {func.arg, func.arg - SPEED_EPSILON, devSpeed} : devSpeed' = v
          /\ wpc' = "get_velocity"
          /\ UNCHANGED <<tick, attempt, writes, why>>
       \/ /\ SetSpeedAttemptFailed
          /\ why' = "ThorlabsError"
          /\ UNCHANGED devSpeed
       \/ /\ NextIteration
          /\ why' = "Error"
          /\ UNCHANGED <<devSpeed, attempt, writes>>
    /\ UNCHANGED <<callerVars, hasQueue, queue, current_speed, data, func,
                   devPos, moving, ncalls, nput, exec, reqSpeed, ghostVars, linkVars, readVars, detVars>>

(* Lines 164-173: get_velocity_parameters returns the configured speed,    *)
(* which is verified; or it raises ThorlabsError; or another error.        *)
GetVelocityEnds ==
    /\ wpc = "get_velocity"
    /\ \/ IF SpeedVerified(devSpeed, func.arg)
          THEN /\ NextIteration
               /\ why' = "none"
               /\ UNCHANGED <<attempt, writes>>
          ELSE /\ SetSpeedAttemptFailed
               /\ why' = "ValueError"
       \/ /\ SetSpeedAttemptFailed
          /\ why' = "ThorlabsError"
       \/ /\ NextIteration
          /\ why' = "Error"
          /\ UNCHANGED <<attempt, writes>>
    /\ UNCHANGED <<callerVars, hasQueue, queue, current_speed, data, func,
                   deviceVars, ncalls, nput, exec, reqSpeed, ghostVars, linkVars, readVars, detVars>>

----------------------------------------------------------------------------
(* Detector *)

DetectorConstructed == dop["main"].name # "__init__"

(* Detector.__init__, lines 201-214: glob, open the link, the fields. *)
DetectorInitDevice ==
    /\ dpc["main"] = "ctor"
    /\ \E n \in PathCounts :
          /\ dpaths' = n
          /\ dpc' = [dpc EXCEPT !["main"] = AfterGlob(n)]
          /\ ddevice' = (AfterGlob(n) = "ctor_thread")
    /\ UNCHANGED <<dop, dres, lock, dwpc, ddata, gain, dreadVars, motorVars>>

(* Detector.__init__, lines 217-218: create the lock, start the thread. *)
DetectorInitThread ==
    /\ dpc["main"] = "ctor_thread"
    /\ dpc' = [dpc EXCEPT !["main"] = "ctor_verify"]
    /\ lock' = "free"
    /\ dwpc' = "sleep"
    /\ UNCHANGED <<dop, dres, ddata, gain, dlinkVars, dreadVars, motorVars>>

(* Detector.__init__, line 221: the call of get_id starts. *)
DetectorInitGetId ==
    /\ dpc["main"] = "ctor_verify"
    /\ dpc' = [dpc EXCEPT !["main"] = "get_id"]
    /\ UNCHANGED <<dop, dres, lock, dwpc, ddata, gain, dlinkVars, dreadVars, motorVars>>

(* Detector.__init__, lines 221-222: get_id returns an identity, and the   *)
(* constructor returns; or it returns "" or raises, and the constructor    *)
(* raises.                                                                 *)
DetectorInitGetIdEnds ==
    /\ dpc["main"] = "get_id"
    /\ \E identified \in BOOLEAN :
          /\ dpc' = [dpc EXCEPT !["main"] = IF identified THEN "idle" ELSE "connect_failed"]
          /\ dop' = [dop EXCEPT !["main"] = IF identified THEN NoAccess ELSE @]
    /\ UNCHANGED <<dres, lock, dwpc, ddata, gain, dlinkVars, dreadVars, motorVars>>

(* The text of the gain command and what the mock driver makes of it.     *)
(* A string is the sequence of its characters.                            *)

Digits == << "0", "1", "2", "3", "4", "5", "6", "7", "8", "9" >>

RECURSIVE Decimal(_)
Decimal(n) ==
    IF n < 10 THEN << Digits[n + 1] >>
    ELSE Decimal(n \div 10) \o << Digits[(n % 10) + 1] >>

(* Formats the magnitude only. *)
StrUnsigned(v) == Decimal(Abs(v))

(* Line 237: {value} in the f-string, str(int). *)
Str(v) == IF v < 0 THEN << "-" >> \o Decimal(0 - v) ELSE Decimal(v)

(* Line 237: f"det:gain {value}". *)
GainCommand(v) == << "d", "e", "t", ":", "g", "a", "i", "n", " " >> \o Str(v)

(* devices_mock.py, line 108: command.split(), the words between blanks; *)
(* cur is the word being read and acc the words read.                     *)
RECURSIVE Split(_, _, _)
Split(s, cur, acc) ==
    IF s = << >>
    THEN IF cur = << >> THEN acc ELSE Append(acc, cur)
    ELSE IF Head(s) = " "
    THEN Split(Tail(s), << >>, IF cur = << >> THEN acc ELSE Append(acc, cur))
    ELSE Split(Tail(s), Append(cur, Head(s)), acc)

IsDigit(ch) == \E d \in 1..10 : Digits[d] = ch

DigitValue(ch) == (CHOOSE d \in 1..10 : Digits[d] = ch) - 1

RECURSIVE DecimalValue(_)
DecimalValue(ds) ==
    IF ds = << >> THEN 0
    ELSE 10 * DecimalValue(SubSeq(ds, 1, Len(ds) - 1)) + DigitValue(ds[Len(ds)])

(* devices_mock.py, line 110: int(value) accepts a sign and digits. *)
IsInt(word) ==
    LET ds == IF Head(word) \in {"-", "+"} THEN Tail(word) ELSE word IN
        /\ ds # << >>
        /\ \A i \in 1..Len(ds) : IsDigit(ds[i])

ParseInt(word) ==
    IF Head(word) = "-" THEN 0 - DecimalValue(Tail(word))
    ELSE IF Head(word) = "+" THEN DecimalValue(Tail(word))
    ELSE DecimalValue(word)

(* devices_mock.py, lines 105-112: SCPIDevice.write(command) with _gain = g. *)
MockWrite(command, g) ==
    LET words == Split(command, << >>, << >>) IN
        IF /\ Len(words) = 2
           /\ words[1] = << "d", "e", "t", ":", "g", "a", "i", "n" >>
           /\ IsInt(words[2])
        THEN [gain |-> ParseInt(words[2]), raised |-> FALSE]
        ELSE [gain |-> g, raised |-> TRUE]

(* The lock stays with its holder when the driver call raised. *)
LockAfterCallKeptOnError(holder, raised) == IF raised THEN holder ELSE "free"

(* Lines 227, 236, 242: leaving `with self._lock`, by return or by raise. *)
LockAfterCall(holder, raised) == "free"

(* The lock is not looked at. *)
LockFreeAlways(l) == TRUE

(* `with self._lock` can enter. *)
LockFree(l) == l = "free"

(* The gain getter, the gain setter or the intensity getter is called. *)
Access(c) ==
    /\ DetectorConstructed
    /\ dpc[c] = "idle"
    /\ \E a \in {[name |-> "gain", value |-> 0], [name |-> "intensity", value |-> 0]}
               \cup {[name |-> "gain_set", value |-> v] : v \in Gains} :
          dop' = [dop EXCEPT ![c] = a]
    /\ dpc' = [dpc EXCEPT ![c] = "acquire"]
    /\ UNCHANGED <<dres, lock, dwpc, ddata, gain, dlinkVars, dreadVars, motorVars>>

(* Lines 227-228, 236-237, 242-243: take the lock, start ask or write. *)
Acquire(c) ==
    /\ dpc[c] = "acquire"
    /\ LockFree(lock)
    /\ lock' = c
    /\ dpc' = [dpc EXCEPT ![c] = IF dop[c].name = "gain_set" THEN "write" ELSE "ask"]
    /\ UNCHANGED <<dop, dres, dwpc, ddata, gain, dlinkVars, dreadVars, motorVars>>

(* devices_mock.py, SCPIDevice.ask and write; a driver call may also raise. *)
AccessEnds(c) ==
    /\ dpc[c] \in {"ask", "write"}
    /\ \/ /\ dop[c].name = "gain"
          /\ dres' = [dres EXCEPT ![c] = gain]
          /\ dpc' = [dpc EXCEPT ![c] = "done"]
          /\ lock' = LockAfterCall(lock, FALSE)
          /\ UNCHANGED <<gain, lastWrite>>
       \/ /\ dop[c].name = "intensity"
          /\ \E r \in Readings : dres' = [dres EXCEPT ![c] = r \div MAX_INTENSITY]
          /\ dpc' = [dpc EXCEPT ![c] = "done"]
          /\ lock' = LockAfterCall(lock, FALSE)
          /\ UNCHANGED <<gain, lastWrite>>
       \/ /\ dop[c].name = "gain_set"
          /\ LET w == MockWrite(GainCommand(dop[c].value), gain) IN
                /\ gain' = w.gain
                /\ lastWrite' = IF w.raised THEN lastWrite ELSE dop[c].value
                /\ dpc' = [dpc EXCEPT ![c] = IF w.raised THEN "raised" ELSE "done"]
                /\ lock' = LockAfterCall(lock, w.raised)
          /\ UNCHANGED dres
       \/ /\ dpc' = [dpc EXCEPT ![c] = "raised"]
          /\ lock' = LockAfterCall(lock, TRUE)
          /\ UNCHANGED <<dres, gain, lastWrite>>
    /\ UNCHANGED <<dop, dwpc, ddata, dlinkVars, dcbArg, dfailed, motorVars>>

(* The accessor returns or raises to its caller. *)
AccessReturn(c) ==
    /\ dpc[c] \in {"done", "raised"}
    /\ dpc' = [dpc EXCEPT ![c] = "idle"]
    /\ dop' = [dop EXCEPT ![c] = NoAccess]
    /\ dres' = [dres EXCEPT ![c] = 0]
    /\ UNCHANGED <<lock, dwpc, ddata, gain, dlinkVars, dreadVars, motorVars>>

(* Detector._run_thread, lines 251-254 and 242-243: sleep, then            *)
(* self.intensity takes the lock and starts ask("det:meas?").              *)
DetectorPoll ==
    /\ dwpc = "sleep"
    /\ LockFree(lock)
    /\ lock' = "worker"
    /\ dwpc' = "ask"
    /\ UNCHANGED <<dpc, dop, dres, ddata, gain, dlinkVars, dreadVars, motorVars>>

(* The loop ends when the read fails. *)
DetectorPollEndsStoppingOnFailure ==
    /\ dwpc = "ask"
    /\ \/ /\ Len(ddata) < MaxLog
          /\ \E r \in Readings :
                /\ ddata' = LogAppend(ddata, r \div MAX_INTENSITY)
                /\ dcbArg' = r \div MAX_INTENSITY
          /\ lock' = LockAfterCall(lock, FALSE)
          /\ dwpc' = "on_update"
          /\ UNCHANGED dfailed
       \/ /\ dwpc' = "dead"
          /\ lock' = LockAfterCall(lock, TRUE)
          /\ dfailed' = TRUE
          /\ UNCHANGED <<ddata, dcbArg>>
    /\ UNCHANGED <<dpc, dop, dres, gain, dlinkVars, lastWrite, motorVars>>

(* Lines 243-246 and 255-259: ask returns, the lock is released and the    *)
(* sample appended; or ask raises, the lock is released and the iteration  *)
(* skipped.                                                                *)
DetectorPollEnds ==
    /\ dwpc = "ask"
    /\ \/ /\ Len(ddata) < MaxLog
          /\ \E r \in Readings :
                /\ ddata' = LogAppend(ddata, r \div MAX_INTENSITY)
                /\ dcbArg' = r \div MAX_INTENSITY
          /\ lock' = LockAfterCall(lock, FALSE)
          /\ dwpc' = "on_update"
          /\ UNCHANGED dfailed
       \/ /\ dwpc' = "sleep"
          /\ lock' = LockAfterCall(lock, TRUE)
          /\ dfailed' = TRUE
          /\ UNCHANGED <<ddata, dcbArg>>
    /\ UNCHANGED <<dpc, dop, dres, gain, dlinkVars, lastWrite, motorVars>>

(* Line 260: on_update(intensity) returns; or it raises, which nothing in  *)
(* _run_thread catches.                                                    *)
DetectorOnUpdateEnds ==
    /\ dwpc = "on_update"
    /\ \E raised \in BOOLEAN : dwpc' = IF raised THEN "dead" ELSE "sleep"
    /\ dcbArg' = NoValue
    /\ UNCHANGED <<dpc, dop, dres, lock, ddata, gain, dlinkVars, lastWrite, dfailed, motorVars>>

----------------------------------------------------------------------------
(* gui.py, MainWindow.clear_data, lines 341-345; the window exists once    *)
(* both controllers are constructed.                                       *)
ClearData(c) ==
    /\ Constructed
    /\ DetectorConstructed
    /\ pc[c] = "idle"
    /\ dpc[c] = "idle"
    /\ op' = [op EXCEPT ![c] = [name |-> "clear_data", pos |-> 0, speed |-> 0]]
    /\ pc' = [pc EXCEPT ![c] = "clear_motor"]
    /\ UNCHANGED <<todo, sent, saw, wfs, hasQueue, queue, current_speed, data,
                   workerVars, deviceVars, ncalls, nput, exec, reqSpeed, ghostVars, linkVars, readVars, detVars>>

(* Line 344: self.motor.data.clear(). *)
ClearMotorData(c) ==
    /\ pc[c] = "clear_motor"
    /\ data' = LogClear(data)
    /\ pc' = [pc EXCEPT ![c] = "clear_detector"]
    /\ UNCHANGED <<op, todo, sent, saw, wfs, hasQueue, queue, current_speed,
                   workerVars, deviceVars, ncalls, nput, exec, reqSpeed, ghostVars, linkVars, readVars, detVars>>

(* Line 345: self.detector.data.clear(). *)
ClearDetectorData(c) ==
    /\ pc[c] = "clear_detector"
    /\ ddata' = LogClear(ddata)
    /\ pc' = [pc EXCEPT ![c] = "done"]
    /\ UNCHANGED <<op, todo, sent, saw, wfs, hasQueue, queue, current_speed, data,
                   workerVars, deviceVars, ncalls, nput, exec, reqSpeed, ghostVars, linkVars, readVars,
                   dpc, dop, dres, lock, dwpc, gain, dlinkVars, dreadVars>>

(* The program with the threads of T calling the Motor's operations. *)
Program(T) ==
    \/ MotorInitDevice
    \/ MotorInitThread
    \/ MotorInitQueue
    \/ \E c \in T : Put(c)
    \/ \E c \in T : Return(c)
    \/ \E c \in T : SetPosition(c)
    \/ \E c \in T : Home(c)
    \/ \E c \in T : Stop(c)
    \/ \E c \in T : Wait(c)
    \/ \E c \in T : WaitForStopEnds(c)
    \/ \E c \in T : WaitRetry(c)
    \/ RunThreadTick
    \/ GetPositionEnds
    \/ OnUpdateEnds
    \/ CommandEnds
    \/ SetupVelocityEnds
    \/ GetVelocityEnds
    \/ MotionEnds

(* One thread calls the Motor. *)
Next == Program({"main"})

Spec == Init /\ [][Next]_vars

(* The worker thread keeps being scheduled and every driver call and      *)
(* callback of it returns or raises; nothing is assumed of the callers.    *)
WorkerFairness ==
    /\ WF_vars(RunThreadTick)
    /\ WF_vars(GetPositionEnds)
    /\ WF_vars(OnUpdateEnds)
    /\ WF_vars(CommandEnds)
    /\ WF_vars(SetupVelocityEnds)
    /\ WF_vars(GetVelocityEnds)

SpecLive == Init /\ [][Next]_vars /\ WorkerFairness

(* Two threads call the Motor, as the GUI's main and motion threads do. *)
NextMT == Program(Callers)

SpecMT == Init /\ [][NextMT]_vars

(* The Detector, its worker and the threads that call its accessors. *)
NextDetector ==
    \/ DetectorInitDevice
    \/ DetectorInitThread
    \/ DetectorInitGetId
    \/ DetectorInitGetIdEnds
    \/ \E c \in Callers : Access(c)
    \/ \E c \in Callers : Acquire(c)
    \/ \E c \in Callers : AccessEnds(c)
    \/ \E c \in Callers : AccessReturn(c)
    \/ DetectorPoll
    \/ DetectorPollEnds
    \/ DetectorOnUpdateEnds

SpecDetector == Init /\ [][NextDetector]_vars

(* Both controllers and their workers, with a consumer thread that reads   *)
(* Motor.position and clears the logs; no motion is commanded beyond the   *)
(* homing of the constructor.                                              *)
NextLog ==
    \/ MotorInitDevice
    \/ MotorInitThread
    \/ MotorInitQueue
    \/ Put("main")
    \/ Return("main")
    \/ Position("main")
    \/ PositionRead("main")
    \/ ClearData("main")
    \/ ClearMotorData("main")
    \/ ClearDetectorData("main")
    \/ RunThreadTick
    \/ GetPositionEnds
    \/ OnUpdateEnds
    \/ CommandEnds
    \/ SetupVelocityEnds
    \/ GetVelocityEnds
    \/ MotionEnds
    \/ DetectorInitDevice
    \/ DetectorInitThread
    \/ DetectorInitGetId
    \/ DetectorInitGetIdEnds
    \/ DetectorPoll
    \/ DetectorPollEnds
    \/ DetectorOnUpdateEnds

SpecLog == Init /\ [][NextLog]_vars

(* The Motor with one thread that moves the stage and reads Motor.position. *)
NextPosition ==
    \/ MotorInitDevice
    \/ MotorInitThread
    \/ MotorInitQueue
    \/ Put("main")
    \/ Return("main")
    \/ SetPosition("main")
    \/ Position("main")
    \/ PositionRead("main")
    \/ RunThreadTick
    \/ GetPositionEnds
    \/ OnUpdateEnds
    \/ CommandEnds
    \/ SetupVelocityEnds
    \/ GetVelocityEnds
    \/ MotionEnds

SpecPosition == Init /\ [][NextPosition]_vars

----------------------------------------------------------------------------
(* Driver calls in flight on the motor link, by thread. *)
WorkerInCall ==
    wpc \in {"get_position", "enable", "home", "stop", "move_to",
             "setup_velocity", "get_velocity"}

MotorCallsInFlight ==
    {c \in Callers : pc[c] = "wait_for_stop"} \cup (IF WorkerInCall THEN {"worker"} ELSE {})

InSetSpeed == wpc \in {"setup_velocity", "get_velocity"}

(* The function and argument of each command of a sequence. *)
Plain(cmds) == [i \in 1..Len(cmds) |-> <<cmds[i].f, cmds[i].arg>>]

(* The driver call each command of a sequence makes when it is executed. *)
DriverCalls(cmds) == [i \in 1..Len(cmds) |-> DriverCallOf(cmds[i].f)]

(* A step of the motor worker other than the return of on_update. *)
WorkerStep ==
    \/ RunThreadTick
    \/ GetPositionEnds
    \/ CommandEnds
    \/ SetupVelocityEnds
    \/ GetVelocityEnds

----------------------------------------------------------------------------
(* C1: the worker issues the driver calls of the queued commands in        *)
(* exactly the order in which the commands were put on the queue: the      *)
(* k-th command executed is the k-th command enqueued, whatever polls      *)
(* come between.                                                           *)
C1_FifoOrder == \A i \in 1..Len(exec) : exec[i] = i

C1_Witness ==
    /\ ncalls = MaxCalls
    /\ nput >= 6
    /\ Len(exec) = nput
    /\ Len(data) > 0

(* C2: at most one driver call is in flight on the motor link: no driver   *)
(* call of the worker overlaps another driver call, the wait_for_stop of   *)
(* Motor.wait() included.                                                  *)
C2_OneMotorCallInFlight == Cardinality(MotorCallsInFlight) <= 1

(* C5: a set_position(target, speed) call that returns has put             *)
(* SetSpeed(speed) then SetPosition(target) if speed differed from         *)
(* _current_speed when the call read it, and only SetPosition(target) if   *)
(* they were equal; and the calling thread makes no driver call in it.     *)
C5_SetPositionEnqueues ==
    \A c \in Callers :
        op[c].name = "set_position" =>
            /\ c \notin MotorCallsInFlight
            /\ pc[c] = "done" =>
                  Plain(sent[c]) =
                     IF op[c].speed # saw[c].speed
                     THEN << <<"set_speed", op[c].speed>>, <<"set_position", op[c].pos>> >>
                     ELSE << <<"set_position", op[c].pos>> >>

C5_Witness ==
    \E c \in Callers :
        /\ pc[c] = "done"
        /\ op[c].name = "set_position"
        /\ op[c].speed = saw[c].speed
        /\ Len(sent[c]) = 1

C7_MoveAtRequestedSpeed == wpc = "move_to" => reqSpeed = func.want

(* C8: one execution of SetSpeed writes the velocity at most 3 times and   *)
(* terminates: each of its steps brings it nearer to its end, and when it  *)
(* ends the worker is at the sleep of its next tick.                       *)
C8_SetSpeedMeasure == 2 * (3 - attempt) + (IF wpc = "setup_velocity" THEN 1 ELSE 0)

C8_SetSpeedTerminates ==
    [][/\ writes' <= 3
       /\ InSetSpeed' => C8_SetSpeedMeasure' >= 0
       /\ (InSetSpeed /\ InSetSpeed' /\ <<wpc, attempt>>' # <<wpc, attempt>>)
             => C8_SetSpeedMeasure' < C8_SetSpeedMeasure
       /\ (InSetSpeed /\ ~InSetSpeed')
             => (wpc' = "sleep" /\ tick' = ~tick)]_vars

C8_Witness ==
    /\ wpc = "sleep"
    /\ func.f = "set_speed"
    /\ writes = 3
    /\ ~SpeedVerified(devSpeed, func.arg)

(* C9: Motor.wait() calls wait_for_stop at most twice; it returns normally *)
(* if the first call succeeds, or if the first raises ThorlabsError and    *)
(* the second succeeds; it raises if both calls raise.                     *)
C9_WaitRetriesOnce ==
    \A c \in Callers :
        /\ Len(wfs[c]) + (IF pc[c] \in {"wait_for_stop", "wait_retry"} THEN 1 ELSE 0) <= 2
        /\ (op[c].name = "wait" /\ pc[c] \in {"done", "raised"}) =>
              /\ wfs[c] = <<"ok">> => pc[c] = "done"
              /\ wfs[c] = <<"ThorlabsError", "ok">> => pc[c] = "done"
              /\ (Len(wfs[c]) = 2 /\ wfs[c][2] # "ok") => pc[c] = "raised"
              /\ pc[c] = "done" => wfs[c][Len(wfs[c])] = "ok"

C9_Witness ==
    \E c \in Callers :
        /\ op[c].name = "wait"
        /\ pc[c] = "done"
        /\ wfs[c] = <<"ThorlabsError", "ok">>

(* C10: when a caller's set_position is followed by its wait(), wait()     *)
(* does not return before the worker has taken that SetPosition from the   *)
(* queue and issued its move_to.                                           *)
C10_WaitCoversMotion ==
    \A c \in Callers :
        (op[c].name = "wait" /\ pc[c] = "done") =>
            \A i \in 1..Len(queue) : ~(queue[i].f = "set_position" /\ queue[i].by = c)

(* C11: a read of Motor.position returns the value of the last sample of   *)
(* the position log; when it finds the log empty it waits once and reads   *)
(* again, and when the log is empty again the read raises an error and     *)
(* returns no value.                                                       *)
C11_PositionReadsLastSample ==
    [][\A c \in Callers :
          (pc[c] \in {"position", "position_retry"} /\ pc'[c] # pc[c]) =>
              /\ data # << >> => (pc'[c] = "done" /\ res'[c] = data[Len(data)])
              /\ (data = << >> /\ pc[c] = "position") => pc'[c] = "position_retry"
              /\ (data = << >> /\ pc[c] = "position_retry") =>
                    (pc'[c] = "raised" /\ res'[c] = NoValue)]_vars

C11_Witness ==
    \E c \in Callers :
        /\ op[c].name = "position"
        /\ pc[c] = "raised"
        /\ wpc # "off"

(* C13: home() puts only Enable then Home, so that the driver calls of     *)
(* home() followed by set_position(10.0) at the default speed, the speed   *)
(* being the maximum already, are enable, home, move_to in that order.     *)
C13_HomeThenMoveDriverCalls ==
    \A c \in Callers :
        pc[c] = "done" =>
            /\ op[c].name = "home" => DriverCalls(sent[c]) = << "enable", "home" >>
            /\ (op[c].name = "set_position" /\ op[c].speed = MOTOR_MAX_SPEED
                   /\ saw[c].speed = MOTOR_MAX_SPEED)
                  => DriverCalls(sent[c]) = << "move_to" >>

(* C14: stop() puts exactly Stop then SetSpeed(max), each at the tail of   *)
(* the queue; the commands put before stay in place and in order and have  *)
(* all been executed when the driver's stop call is issued; and stop()     *)
(* makes no driver call itself.                                            *)
C14_StopAppendsAtTail ==
    /\ \A c \in Callers :
          op[c].name = "stop" =>
              /\ c \notin MotorCallsInFlight
              /\ pc[c] = "done" =>
                    Plain(sent[c]) = << <<"stop", 0>>, <<"set_speed", MOTOR_MAX_SPEED>> >>
    /\ \A i \in 1..(Len(queue) - 1) : queue[i + 1].id = queue[i].id + 1
    /\ queue # << >> => queue[Len(queue)].id = nput
    /\ wpc = "stop" => exec = [i \in 1..func.id |-> i]

C14_Witness ==
    \E c \in Callers :
        /\ op[c].name = "stop"
        /\ pc[c] = "done"
        /\ Len(queue) > 2
        /\ SubSeq(queue, Len(queue) - 1, Len(queue)) = sent[c]

(* C19: a callback that blocks does not hold up the worker: while an       *)
(* on_update call of the motor worker has not returned, the worker can     *)
(* still take a step (poll, append, dequeue or execute a command).         *)
C19_WorkerRunsDuringCallback == wpc = "on_update" => ENABLED WorkerStep

(* C21: the end of a driver call of the motor worker, by return or by      *)
(* raise, in a command or in a poll, never ends the worker: the worker     *)
(* goes on inside the function or to the sleep of its next tick, the queue *)
(* is left as it was, and the commands are still executed in put order.    *)
C21_DriverErrorKeepsWorker ==
    [][(WorkerInCall /\ wpc' # wpc) =>
          /\ wpc' \in {"sleep", "on_update", "setup_velocity", "get_velocity"}
          /\ wpc' = "sleep" => tick' = ~tick
          /\ queue' = queue
          /\ \A i \in 1..Len(exec') : exec'[i] = i]_vars

C21_Witness ==
    /\ ncalls = 2 /\ nput = 5 /\ lastPutSpeed = MOTOR_MAX_SPEED
    /\ wpc = "move_to" /\ func.id = 5
    /\ devPos = 0
    /\ data = << >>

(* C23: the constructor puts Enable, SetSpeed(max), Home in that order and *)
(* makes no driver call itself; the first three commands the worker        *)
(* executes are these, in that order.                                      *)
C23_ConstructorEnqueuesHoming ==
    /\ op["main"].name = "__init__" =>
          /\ "main" \notin MotorCallsInFlight
          /\ pc["main"] = "done" =>
                Plain(sent["main"]) = << <<"enable", 0>>, <<"set_speed", MOTOR_MAX_SPEED>>,
                                         <<"home", 0>> >>
    /\ (WorkerInCall /\ wpc # "get_position") =>
          /\ func.id = 1 => wpc = "enable"
          /\ func.id = 2 => (InSetSpeed /\ func.arg = MOTOR_MAX_SPEED)
          /\ func.id = 3 => wpc = "home"

C23_Witness ==
    /\ Constructed
    /\ pc["main"] = "idle"
    /\ Len(queue) = 3
    /\ exec = << >>
    /\ Len(data) > 0

(* C24: the worker's ticks alternate strictly: an iteration that ends is   *)
(* followed by one of the other kind, a poll tick polls and takes nothing  *)
(* from the queue, and a command tick that finds a command in the queue    *)
(* takes the first one and executes it.                                    *)
C24_TicksAlternate ==
    [][/\ (wpc \notin {"off", "sleep"} /\ wpc' = "sleep") => tick' = ~tick
       /\ (wpc = "sleep" /\ wpc' \notin {"sleep", "dead"}) =>
             /\ tick' = tick
             /\ tick => (wpc' = "get_position" /\ queue' = queue)
             /\ (~tick /\ queue # << >>) =>
                   /\ queue' = Tail(queue)
                   /\ func' = Head(queue)
                   /\ wpc' = DriverCallOf(Head(queue).f)]_vars

C24_Witness ==
    /\ ~tick
    /\ wpc = "move_to"
    /\ queue # << >>
    /\ Len(data) = MaxLog
    /\ \E c \in Callers : pc[c] = "put"

(* C25: a command tick that finds the queue empty does nothing: during a   *)
(* command tick the worker is in no position poll and in no callback.      *)
C25_EmptyCommandTickIsNoOp == ~tick => wpc \notin {"get_position", "on_update"}

(* C26: every command put on the queue is eventually dequeued and has its *)
(* driver call issued, when the worker keeps being scheduled and every     *)
(* driver call ends, whatever the polls and the callers do.                *)
C26_EveryCommandExecuted ==
    \A k \in 1..(3 + 3 * MaxCalls) : (nput >= k) ~> (Len(exec) >= k)

(* C27: a SetSpeed(v) stops at the first attempt whose write succeeds and  *)
(* whose readback is within the epsilon of v, a first attempt that is      *)
(* verified having made one write; an attempt is repeated only after a     *)
(* ThorlabsError or after a readback that differs from v by more than the  *)
(* epsilon.                                                                *)
C27_StopsAtVerifiedAttempt ==
    [][/\ (wpc = "get_velocity" /\ wpc' # wpc) =>
             /\ why' = "none" =>
                   /\ Abs(devSpeed - func.arg) <= SPEED_EPSILON
                   /\ wpc' = "sleep"
                   /\ writes' = writes
                   /\ attempt = 1 => writes' = 1
             /\ why' = "ValueError" => Abs(devSpeed - func.arg) > SPEED_EPSILON
             /\ (wpc' = "sleep" /\ attempt < 3) => why' \in {"none", "Error"}
       /\ (InSetSpeed /\ writes' # writes) =>
             /\ writes' = writes + 1
             /\ wpc' = "setup_velocity"
             /\ why' \in {"ThorlabsError", "ValueError"}
             /\ why' = "ValueError" => wpc = "get_velocity"]_vars

C27_Witness ==
    /\ wpc = "sleep"
    /\ func.f = "set_speed"
    /\ why = "none"
    /\ writes = 1
    /\ devSpeed = func.arg - SPEED_EPSILON

(* C28: whenever no SetSpeed is being executed, current_speed is within    *)
(* the epsilon of the velocity configured in the driver.                   *)
C28_CurrentSpeedIsConfigured == ~InSetSpeed => Abs(current_speed - devSpeed) <= SPEED_EPSILON

(* C29: no command is executed twice: the commands executed are all        *)
(* different, and the function the worker kept from the tick before is the *)
(* position poll whenever a command tick begins.                           *)
C29_NoCommandTwice ==
    /\ \A i, j \in 1..Len(exec) : i # j => exec[i] # exec[j]
    /\ (wpc = "sleep" /\ ~tick) => func = GetPosition

C29_Witness ==
    /\ ~tick
    /\ wpc = "get_position"
    /\ queue = << >>
    /\ nput >= 4
    /\ Len(exec) = nput

(* C30: the worker's first command tick never comes while the queue does  *)
(* not exist: the worker's loop is never ended by an uncaught error of the *)
(* dequeue.                                                                *)
C30_QueueExistsAtCommandTick == wpc # "dead"

(* C12: when the discovery finds no matching path, the construction of the *)
(* Motor, and likewise of the Detector, has failed, and no worker has been *)
(* started, no link opened and no command put on the queue.                *)
C12_NoDeviceNoWorker ==
    /\ (pc["main"] # "ctor" /\ mpaths = 0) =>
          /\ pc["main"] = "ctor_failed"
          /\ wpc = "off"
          /\ ~device
          /\ ~hasQueue /\ queue = << >> /\ nput = 0
    /\ (dpc["main"] # "ctor" /\ dpaths = 0) =>
          /\ dpc["main"] = "ctor_failed"
          /\ dwpc = "off"
          /\ ~ddevice

C12_Witness ==
    /\ pc["main"] = "ctor_failed" /\ mpaths = 0
    /\ dpc["main"] = "ctor_failed" /\ dpaths = 0

(* A step in which a thread clears the motor's log, the detector's log. *)
MotorClearStep == \E c \in Callers : pc[c] = "clear_motor" /\ pc'[c] # pc[c]

DetectorClearStep == \E c \in Callers : pc[c] = "clear_detector" /\ pc'[c] # pc[c]

(* The log after is the log before with one sample more at its end. *)
Extends(after, before) ==
    /\ Len(after) = Len(before) + 1
    /\ SubSeq(after, 1, Len(before)) = before

(* C15: each sample log is append-only between clears: a step that is not  *)
(* a clear of the log leaves it unchanged or extends it by one sample at   *)
(* its end, while consumers read and the worker appends.                   *)
C15_LogsAppendOnly ==
    [][/\ ~MotorClearStep => (data' = data \/ Extends(data', data))
       /\ ~DetectorClearStep => (ddata' = ddata \/ Extends(ddata', ddata))]_vars

C15_Witness ==
    /\ Len(data) = MaxLog
    /\ Len(ddata) = MaxLog
    /\ ddata[1] # ddata[Len(ddata)]
    /\ op["main"].name = "position" /\ pc["main"] = "done"

(* C16: a clear leaves the log empty, and the first successful poll that   *)
(* ends after it leaves the log with that one new sample only, also when   *)
(* the poll was in progress while the log was cleared.                     *)
C16_ClearThenOneSample ==
    [][/\ MotorClearStep => data' = << >>
       /\ DetectorClearStep => ddata' = << >>
       /\ (data = << >> /\ data' # data) => data' = << cbArg' >>
       /\ (ddata = << >> /\ ddata' # ddata) => ddata' = << dcbArg' >>]_vars

C16_Witness ==
    /\ op["main"].name = "clear_data" /\ pc["main"] = "done"
    /\ wpc = "on_update" /\ data = << cbArg >>
    /\ dwpc = "on_update" /\ ddata = << dcbArg >>

(* C17: for both controllers a successful poll appends exactly one sample  *)
(* and on_update is then called once, with that sample's value; a poll     *)
(* whose driver read fails appends nothing and calls nothing; on_update is *)
(* called at no other time.                                                *)
C17_OneCallbackPerSample ==
    [][/\ (wpc = "get_position" /\ wpc' # wpc) =>
             \/ wpc' = "on_update" /\ cbArg' = devPos /\ data' = Append(data, cbArg')
             \/ wpc' # "on_update" /\ cbArg' = NoValue /\ data' = data
       /\ (wpc' = "on_update" /\ wpc # "on_update") => wpc = "get_position"
       /\ (cbArg' # cbArg /\ cbArg' # NoValue) => wpc = "get_position"
       /\ (dwpc = "ask" /\ dwpc' # dwpc) =>
             \/ dwpc' = "on_update" /\ dcbArg' # NoValue /\ ddata' = Append(ddata, dcbArg')
             \/ dwpc' # "on_update" /\ dcbArg' = NoValue /\ ddata' = ddata
       /\ (dwpc' = "on_update" /\ dwpc # "on_update") => dwpc = "ask"
       /\ (dcbArg' # dcbArg /\ dcbArg' # NoValue) => dwpc = "ask"]_vars

C17_Witness ==
    /\ wpc = "on_update" /\ data # << >> /\ cbArg = data[Len(data)]
    /\ dwpc = "on_update" /\ Len(ddata) = MaxLog /\ dcbArg = 1 /\ ddata[1] = 0

----------------------------------------------------------------------------
(* Driver calls in flight on the detector link, by thread. *)
DetectorAccessesInFlight ==
    {c \in Callers : dpc[c] \in {"ask", "write"}} \cup (IF dwpc = "ask" THEN {"worker"} ELSE {})

DetectorCallsInFlight ==
    DetectorAccessesInFlight \cup {c \in Callers : dpc[c] = "get_id"}

(* C3: the gain read, the gain write and the intensity read exclude each   *)
(* other on the detector link: of the ask and write calls of the consumer  *)
(* threads and of the polling worker, at most one is in flight.            *)
C3_AccessorsExclusive == Cardinality(DetectorAccessesInFlight) <= 1

C3_Witness ==
    /\ dwpc = "ask"
    /\ \A c \in Callers : dpc[c] = "acquire"

(* C4: at most one driver call is in flight on the detector link, the      *)
(* constructor's identity query included.                                  *)
C4_OneDetectorCallInFlight == Cardinality(DetectorCallsInFlight) <= 1

(* C18: the detector lock is held only during a driver call of an         *)
(* accessor: it is free once the accessor has returned or raised, it is    *)
(* not held while on_update runs, and it is free whenever no ask or write  *)
(* is in flight, so that a waiting accessor can take it.                   *)
C18_LockHeldOnlyDuringCall ==
    /\ \A c \in Callers : lock = c => dpc[c] \in {"ask", "write"}
    /\ lock = "worker" => dwpc = "ask"
    /\ dwpc = "on_update" => lock # "worker"
    /\ DetectorAccessesInFlight = {} => lock = "free"

C18_Witness ==
    /\ dwpc = "on_update"
    /\ dpc["main"] = "raised"
    /\ dpc["motion"] = "ask" /\ lock = "motion"

(* C20: against the mock driver a read of gain returns the value v of the  *)
(* gain write that reached the driver last, whatever integer v is and      *)
(* however many intensity polls come between the write and the read.       *)
C20_GainRoundTrip ==
    [][\A c \in Callers :
          (dop[c].name = "gain" /\ dpc[c] = "ask" /\ dpc'[c] = "done")
              => dres'[c] = lastWrite]_vars

C20_Witness ==
    /\ dop["main"].name = "gain" /\ dpc["main"] = "done"
    /\ dres["main"] = 0 - (10 * MaxGain + 3)
    /\ Len(ddata) = MaxLog

(* C22: when the intensity read of the detector worker fails, the         *)
(* iteration appends no sample and calls no callback, the lock is          *)
(* released, and the worker is at the sleep of its next iteration, from    *)
(* which a later read that succeeds appends its sample.                    *)
C22_FailedReadSkipsIteration ==
    [][/\ (dwpc = "ask" /\ dwpc' # dwpc) =>
             /\ lock' = "free"
             /\ \/ dwpc' = "on_update" /\ Extends(ddata', ddata) /\ dfailed' = dfailed
                \/ dwpc' = "sleep" /\ ddata' = ddata /\ dcbArg' = NoValue /\ dfailed'
       /\ (dfailed' /\ ~dfailed) => (dwpc = "ask" /\ dwpc' = "sleep")]_vars

C22_Witness ==
    /\ dfailed
    /\ dwpc = "on_update"
    /\ Len(ddata) = 1

(* The GUI's two threads at the Motor: the main thread, which constructed  *)
(* it, stops the motion while the motion thread moves and waits.           *)
NextRace ==
    \/ MotorInitDevice
    \/ MotorInitThread
    \/ MotorInitQueue
    \/ \E c \in Callers : Put(c)
    \/ \E c \in Callers : Return(c)
    \/ Stop("main")
    \/ SetPosition("motion")
    \/ Wait("motion")
    \/ WaitForStopEnds("motion")
    \/ WaitRetry("motion")
    \/ RunThreadTick
    \/ GetPositionEnds
    \/ OnUpdateEnds
    \/ CommandEnds
    \/ SetupVelocityEnds
    \/ GetVelocityEnds
    \/ MotionEnds

SpecRace == Init /\ [][NextRace]_vars

(* C31: the commands put by one call of a Motor operation are adjacent in *)
(* the queue, also when several threads call the Motor: the SetSpeed and   *)
(* SetPosition of one set_position, and the Stop and SetSpeed of one       *)
(* stop(), are numbered consecutively in put order.                        *)
C31_CommandsOfOneCallAdjacent ==
    \A c \in Callers :
        op[c].name \in {"set_position", "stop"} =>
            \A i \in 1..(Len(sent[c]) - 1) : sent[c][i + 1].id = sent[c][i].id + 1

(* C32: once the identity query of the Detector's constructor has failed,  *)
(* no worker of that detector runs on: no step issues a measurement query  *)
(* to the driver and no step starts an on_update call.                     *)
C32_NoWorkerAfterFailedIdentity ==
    [][dpc["main"] = "connect_failed" =>
          /\ ~(dwpc # "ask" /\ dwpc' = "ask")
          /\ ~(dwpc # "on_update" /\ dwpc' = "on_update")]_vars

(* C33: an exception raised by on_update ends neither worker: the step     *)
(* that ends a callback, by return or by raise, takes the motor worker and *)
(* the detector worker to the sleep of their next iteration.               *)
C33_CallbackErrorKeepsWorkers ==
    [][/\ (wpc = "on_update" /\ wpc' # wpc) => wpc' = "sleep"
       /\ (dwpc = "on_update" /\ dwpc' # dwpc) => dwpc' = "sleep"]_vars

====
